---- MODULE Spec2Model ----
(***************************************************************************)
(* A model of the video upload workflow: the stage functions of            *)
(* src/src/video_upload_workflow.py, its command-line driver main(), and   *)
(* the request handlers of src/src/web/app.py.                             *)
(*                                                                         *)
(* Text is modelled as a sequence of one-character strings wherever the    *)
(* code looks inside it (strip, lower, int); file contents the code only   *)
(* copies are opaque values.  A directory is a function from file name to  *)
(* [exists, data]; the disk is a function from directory to directory.     *)
(***************************************************************************)
EXTENDS Integers, Sequences, FiniteSets, TLC

VARIABLES
    disk,       \* directory name -> file name -> [exists, data]
    cwd,        \* the process's current working directory (os.getcwd())
    cli,        \* the command-line run: position in main() and its locals
    tokens,     \* the session identifiers minted by the web driver's upload
    req,        \* web driver: per worker thread, the request it handles or handled
    served,     \* web driver: the number of requests that have arrived, where counted
    environ,    \* os.environ['OPENAI_API_KEY'] of the process
    history     \* per session, what its earlier requests did (kept for the properties)

(***************************************************************************)
(* Bounds of the model.                                                    *)
(***************************************************************************)
\* how many times the title prompt may reject a line before the model stops
\* offering rejected lines
MaxReprompts == 2

\* how many requests arrive in all where two threads serve requests at once
MaxConcRequests == 4

\* how many requests arrive in all where one thread serves two clients in turn
MaxSeqRequests == 4

(***************************************************************************)
(* Text.                                                                   *)
(***************************************************************************)
IsSpace(c) == c = " "

RECURSIVE lstrip(_)
lstrip(s) == IF s # <<>> /\ IsSpace(Head(s)) THEN lstrip(Tail(s)) ELSE s

RECURSIVE rstrip(_)
rstrip(s) ==
    IF s # <<>> /\ IsSpace(s[Len(s)]) THEN rstrip(SubSeq(s, 1, Len(s) - 1)) ELSE s

\* str.strip()
strip(s) == rstrip(lstrip(s))

\* str.lower() on the model's alphabet
lower(s) ==
    [i \in 1..Len(s) |-> CASE s[i] = "Y" -> "y" [] s[i] = "N" -> "n" [] OTHER -> s[i]]

Digits == {"0", "1", "2", "9"}

DigitVal(c) == CASE c = "0" -> 0 [] c = "1" -> 1 [] c = "2" -> 2 [] c = "9" -> 9

RECURSIVE DecVal(_)
DecVal(s) ==
    IF s = <<>> THEN 0
    ELSE 10 * DecVal(SubSeq(s, 1, Len(s) - 1)) + DigitVal(s[Len(s)])

\* int(text): [ok, val]; ok = FALSE is ValueError
py_int(text) ==
    LET s    == strip(text)
        body == IF s # <<>> /\ s[1] \in {"-", "+"} THEN Tail(s) ELSE s
    IN  IF body = <<>> \/ \E i \in 1..Len(body) : body[i] \notin Digits
        THEN [ok |-> FALSE, val |-> 0]
        ELSE [ok |-> TRUE,
              val |-> IF s[1] = "-" THEN 0 - DecVal(body) ELSE DecVal(body)]

(***************************************************************************)
(* Files and paths.                                                        *)
(***************************************************************************)
Sessions == {"s1", "s2"}

\* the directory the process starts in
InitialDir == "work"

DirNames == {InitialDir} \cup Sessions

TextFiles == {"titles.json", "final_title.txt"}

FileNames ==
    {"input_video.mp4", "output.mp4", "input_video.srt", "output.srt",
     "chapters_and_suggested_titles.json", "description.txt", "chapters.txt",
     "color_edit_skipped.txt", "openai_api_key.txt"} \cup TextFiles

NoData(f) == IF f \in TextFiles THEN <<>> ELSE ""

Absent(f) == [exists |-> FALSE, data |-> NoData(f)]

EmptyDir == [f \in FileNames |-> Absent(f)]

\* a relative path is resolved against the working directory at the time of use
Rel(name) == [dir |-> ".", name |-> name]

Abs(dir, name) == [dir |-> dir, name |-> name]

Resolve(p, cw) == IF p.dir = "." THEN cw ELSE p.dir

Exists(dk, cw, p) == dk[Resolve(p, cw)][p.name].exists

Data(dk, cw, p) == dk[Resolve(p, cw)][p.name].data

\* the files of a directory
Present(dk, dir) == {f \in FileNames : dk[dir][f].exists}

WriteFile(dk, cw, p, data) ==
    [dk EXCEPT ![Resolve(p, cw)][p.name] = [exists |-> TRUE, data |-> data]]

\* Path.rename(): the source must exist; renaming a file onto itself changes nothing
Rename(dk, cw, src, dst) ==
    IF Resolve(src, cw) = Resolve(dst, cw) /\ src.name = dst.name THEN dk
    ELSE [WriteFile(dk, cw, dst, Data(dk, cw, src))
            EXCEPT ![Resolve(src, cw)][src.name] = Absent(src.name)]

\* Path.with_suffix(".srt")
with_suffix_srt(p) ==
    [p EXCEPT !.name = IF p.name = "output.mp4" THEN "output.srt" ELSE "input_video.srt"]

OUTPUT_MP4 == Rel("output.mp4")
OUTPUT_SRT == Rel("output.srt")
CHAPTERS_JSON == Rel("chapters_and_suggested_titles.json")
DESCRIPTION_TXT == Rel("description.txt")

(***************************************************************************)
(* The external tools.  A tool is a separate process judged by its exit    *)
(* status; what it leaves on disk when it fails is not under the           *)
(* program's control, so every outcome is offered.                         *)
(***************************************************************************)
\* return codes of a failing tool: plain failures and death by signal 9
FailCodes == {2, 0 - 9}

Outcomes(outs) ==
    {[kind |-> "ok", rc |-> 0, out |-> x] : x \in outs}
    \cup {[kind |-> "ok_noout", rc |-> 0, out |-> ""]}
    \cup {[kind |-> k, rc |-> c, out |-> ""] : k \in {"fail", "fail_partial"}, c \in FailCodes}
    \cup {[kind |-> "notfound", rc |-> 0, out |-> ""]}

JsonOutputs == {"J_empty", "J_full"}

ToolOutputs(tool) ==
    CASE tool = "color_edit" -> {"edited"}
      [] tool = "whisper" -> {"srt"}
      [] tool = "yt_chapter_maker" -> JsonOutputs
      [] OTHER -> {""}

PartialData(tool) == IF tool = "yt_chapter_maker" THEN "J_bad" ELSE "partial"

\* subprocess.run(command, check=True) in the working directory cw:
\* [disk, spawned, rc].  A tool whose input file is missing does not succeed.
subprocess_run(cmd, dk, cw, o) ==
    LET got == IF o.kind \in {"ok", "ok_noout"} /\ ~Exists(dk, cw, cmd.input)
               THEN [kind |-> "fail", rc |-> 1, out |-> ""]
               ELSE o
    IN  [disk |-> CASE cmd.writes /\ got.kind = "ok" ->
                        WriteFile(dk, cw, cmd.output, got.out)
                    [] cmd.writes /\ got.kind = "fail_partial" ->
                        WriteFile(dk, cw, cmd.output, PartialData(cmd.tool))
                    [] OTHER -> dk,
         spawned |-> got.kind # "notfound",
         rc |-> got.rc]

(***************************************************************************)
(* The stage functions of video_upload_workflow.py.  Each returns          *)
(* [disk, calls, raise, code, ran]: the disk afterwards, the external      *)
(* invocations made, the exception that leaves the function ("none",       *)
(* "SystemExit" with its code, or another exception), and whether the      *)
(* stage did its work or skipped.                                          *)
(***************************************************************************)
Skipped(dk) == [disk |-> dk, calls |-> <<>>, raise |-> "none", code |-> 0, ran |-> FALSE]

\* mutant: the failing tool's code is replaced by 1
run_command_exit_1(cmd, dk, cw, o) ==
    LET p == subprocess_run(cmd, dk, cw, o)
    IN  [disk |-> p.disk,
         calls |-> <<[tool |-> cmd.tool, input |-> cmd.input, cwd |-> cw,
                      spawned |-> p.spawned, rc |-> p.rc]>>,
         raise |-> IF ~p.spawned THEN "FileNotFoundError"
                   ELSE IF p.rc # 0 THEN "SystemExit" ELSE "none",
         code |-> IF p.rc # 0 THEN 1 ELSE 0,
         ran |-> TRUE]

run_command(cmd, dk, cw, o) ==
    LET p == subprocess_run(cmd, dk, cw, o)
    IN  [disk |-> p.disk,
         calls |-> <<[tool |-> cmd.tool, input |-> cmd.input, cwd |-> cw,
                      spawned |-> p.spawned, rc |-> p.rc]>>,
         raise |-> IF ~p.spawned THEN "FileNotFoundError"
                   ELSE IF p.rc # 0 THEN "SystemExit" ELSE "none",
         code |-> p.rc,
         ran |-> TRUE]

\* mutant: no check that the output exists
color_edit_video_always(dk, cw, input_video, output_video, o) ==
    run_command([tool |-> "color_edit", input |-> input_video,
                 output |-> output_video, writes |-> TRUE], dk, cw, o)

color_edit_video(dk, cw, input_video, output_video, o) ==
    IF Exists(dk, cw, output_video) THEN Skipped(dk)
    ELSE run_command([tool |-> "color_edit", input |-> input_video,
                      output |-> output_video, writes |-> TRUE], dk, cw, o)

\* mutant: no check that the transcript exists
transcribe_video_always(dk, cw, input_video, output_srt, o) ==
    LET srt_file == with_suffix_srt(input_video)
        r == run_command([tool |-> "whisper", input |-> input_video,
                          output |-> srt_file, writes |-> TRUE], dk, cw, o)
    IN  IF r.raise # "none" THEN r
        ELSE IF Exists(r.disk, cw, srt_file)
             THEN [r EXCEPT !.disk = Rename(r.disk, cw, srt_file, output_srt)]
             ELSE [r EXCEPT !.raise = "SystemExit", !.code = 1]

transcribe_video(dk, cw, input_video, output_srt, o) ==
    IF Exists(dk, cw, output_srt) THEN Skipped(dk)
    ELSE LET srt_file == with_suffix_srt(input_video)
             r == run_command([tool |-> "whisper", input |-> input_video,
                               output |-> srt_file, writes |-> TRUE], dk, cw, o)
         IN  IF r.raise # "none" THEN r
             ELSE IF Exists(r.disk, cw, srt_file)
                  THEN [r EXCEPT !.disk = Rename(r.disk, cw, srt_file, output_srt)]
                  ELSE [r EXCEPT !.raise = "SystemExit", !.code = 1]

generate_chapters(dk, cw, input_srt, output_json, o) ==
    IF Exists(dk, cw, output_json) THEN Skipped(dk)
    ELSE run_command([tool |-> "yt_chapter_maker", input |-> input_srt,
                      output |-> output_json, writes |-> TRUE], dk, cw, o)

TitleA == <<"A">>
TitleB == <<"B">>

\* json.load(): [ok, obj]; obj maps the keys it has to their values
JsonLoad(data) ==
    CASE data = "J_empty" ->
            [ok |-> TRUE, keys |-> {}, chapters |-> "", suggested_titles |-> <<>>]
      [] data = "J_full" ->
            [ok |-> TRUE, keys |-> {"chapters", "suggested_titles"},
             chapters |-> "00:00 Intro", suggested_titles |-> <<TitleA, TitleB>>]
      [] data = "J_chapters" ->
            [ok |-> TRUE, keys |-> {"chapters"},
             chapters |-> "00:00 Intro", suggested_titles |-> <<<<"?">>>>]
      [] data = "J_titles" ->
            [ok |-> TRUE, keys |-> {"suggested_titles"},
             chapters |-> "?", suggested_titles |-> <<TitleA, TitleB>>]
      [] OTHER ->
            [ok |-> FALSE, keys |-> {}, chapters |-> "", suggested_titles |-> <<>>]

\* mutant: data["chapters"] and data["suggested_titles"], KeyError when missing
extract_chapters_and_titles_strict(dk, cw, json_file) ==
    IF ~Exists(dk, cw, json_file)
    THEN [raise |-> "FileNotFoundError", chapters |-> "", titles |-> <<>>]
    ELSE LET data == JsonLoad(Data(dk, cw, json_file))
         IN  IF ~data.ok
             THEN [raise |-> "JSONDecodeError", chapters |-> "", titles |-> <<>>]
             ELSE IF data.keys # {"chapters", "suggested_titles"}
             THEN [raise |-> "KeyError", chapters |-> "", titles |-> <<>>]
             ELSE [raise |-> "none", chapters |-> data.chapters,
                   titles |-> data.suggested_titles]

\* [raise, chapters, titles]
extract_chapters_and_titles(dk, cw, json_file) ==
    IF ~Exists(dk, cw, json_file)
    THEN [raise |-> "FileNotFoundError", chapters |-> "", titles |-> <<>>]
    ELSE LET data == JsonLoad(Data(dk, cw, json_file))
         IN  IF ~data.ok
             THEN [raise |-> "JSONDecodeError", chapters |-> "", titles |-> <<>>]
             ELSE [raise |-> "none",
                   chapters |-> IF "chapters" \in data.keys THEN data.chapters ELSE "",
                   titles |-> IF "suggested_titles" \in data.keys
                              THEN data.suggested_titles ELSE <<>>]

upload_video(dk, cw, final_title, video_path, o) ==
    run_command([tool |-> "yt_upload", input |-> video_path,
                 output |-> video_path, writes |-> FALSE], dk, cw, o)

\* mutant: any answer that begins with y proceeds
confirm_proceeds_startswith(line) ==
    LET s == lower(strip(line)) IN s # <<>> /\ s[1] = "y"

\* confirm.lower() != "y" decides cancellation; this is its negation
confirm_proceeds(line) == lower(strip(line)) = <<"y">>

(***************************************************************************)
(* The command-line driver: main() of video_upload_workflow.py, one action *)
(* per step.  The run is started again and again in the same working       *)
(* directory, so every directory state a run meets was left by earlier     *)
(* runs.                                                                   *)
(***************************************************************************)
INPUT_VIDEO == Rel("input_video.mp4")

SelectionLines ==
    {<<"0">>, <<"1">>, <<"2">>, <<" ", "2">>, <<"9">>, <<"x">>, <<>>, <<"-", "1">>}

TitleLines == {<<>>, <<" ">>, <<"M">>, <<" ", "M">>}

ConfirmLines == {<<"y">>, <<" ", "Y">>, <<"n">>, <<>>, <<"y", "e", "s">>}

NoRun ==
    [pc |-> "shell", yes |-> FALSE, skip_color_edit |-> FALSE, stdin_closed |-> FALSE,
     uvx |-> TRUE, output_video |-> OUTPUT_MP4, chapters |-> "", titles |-> <<>>,
     selected_title |-> <<>>, final_title |-> <<>>, exit_code |-> 0, how |-> "running",
     calls |-> <<>>, stages |-> <<>>, present0 |-> {}, reprompts |-> 0,
     eof_hit |-> FALSE, asked |-> FALSE, answer |-> <<>>]

\* the process ends: sys.exit(code), an uncaught exception (status 1), or
\* main() returning (status 0); the status is the code's low eight bits
Exit(c, code, how) == [c EXCEPT !.pc = "exited", !.exit_code = code % 256, !.how = how]

\* input(): a line, or end of input (EOFError)
Reads(lines) ==
    {[eof |-> TRUE, line |-> <<>>]}
    \cup (IF cli.stdin_closed THEN {} ELSE {[eof |-> FALSE, line |-> l] : l \in lines})

\* what main() does with the result r of a stage function
AfterStage(r, stage, next) ==
    LET c == [cli EXCEPT !.calls = @ \o r.calls,
                         !.stages = IF r.ran THEN Append(@, stage) ELSE @]
    IN  /\ disk' = r.disk
        /\ cli' = CASE r.raise = "none" -> [c EXCEPT !.pc = next]
                    [] r.raise = "SystemExit" -> Exit(c, r.code, "sys_exit")
                    [] OTHER -> Exit(c, 1, "traceback")
        /\ UNCHANGED <<cwd, tokens, req, served, environ, history>>

StartRun ==
    /\ cli.pc \in {"shell", "exited"}
    /\ \E yes \in BOOLEAN, skip \in BOOLEAN, closed \in BOOLEAN, uvx \in BOOLEAN :
          cli' = [NoRun EXCEPT !.pc = "check", !.yes = yes, !.skip_color_edit = skip,
                               !.stdin_closed = closed, !.uvx = uvx,
                               !.present0 = Present(disk, cwd)]
    /\ UNCHANGED <<disk, cwd, tokens, req, served, environ, history>>

\* mutant: the commands are not looked for
check_required_commands_unchecked ==
    /\ cli.pc = "check"
    /\ cli' = [cli EXCEPT !.pc = "step1"]
    /\ UNCHANGED <<disk, cwd, tokens, req, served, environ, history>>

check_required_commands ==
    /\ cli.pc = "check"
    /\ cli' = IF cli.uvx THEN [cli EXCEPT !.pc = "step1"] ELSE Exit(cli, 1, "sys_exit")
    /\ UNCHANGED <<disk, cwd, tokens, req, served, environ, history>>

main_step1 ==
    /\ cli.pc = "step1"
    /\ IF cli.skip_color_edit
       THEN /\ cli' = [cli EXCEPT !.pc = "step2", !.output_video = INPUT_VIDEO]
            /\ UNCHANGED <<disk, cwd, tokens, req, served, environ, history>>
       ELSE \E o \in Outcomes(ToolOutputs("color_edit")) :
               AfterStage(color_edit_video(disk, cwd, INPUT_VIDEO, OUTPUT_MP4, o),
                          "ColorEdit", "step2")

main_step2 ==
    /\ cli.pc = "step2"
    /\ \E o \in Outcomes(ToolOutputs("whisper")) :
          AfterStage(transcribe_video(disk, cwd, cli.output_video, OUTPUT_SRT, o),
                     "Transcribe", "step3")

main_step3 ==
    /\ cli.pc = "step3"
    /\ \E o \in Outcomes(ToolOutputs("yt_chapter_maker")) :
          AfterStage(generate_chapters(disk, cwd, OUTPUT_SRT, CHAPTERS_JSON, o),
                     "GenerateChapters", "step4")

main_step4 ==
    /\ cli.pc = "step4"
    /\ LET x == extract_chapters_and_titles(disk, cwd, CHAPTERS_JSON)
           c == [cli EXCEPT !.stages = Append(@, "ExtractChaptersAndTitles")]
       IN  cli' = IF x.raise = "none"
                  THEN [c EXCEPT !.pc = "step5", !.chapters = x.chapters,
                                 !.titles = x.titles]
                  ELSE Exit(c, 1, "traceback")
    /\ UNCHANGED <<disk, cwd, tokens, req, served, environ, history>>

\* select_and_edit_title: the list of suggestions is printed
select_and_edit_title_enter ==
    /\ cli.pc = "step5"
    /\ cli' = [cli EXCEPT !.pc = "select", !.stages = Append(@, "SelectTitle")]
    /\ UNCHANGED <<disk, cwd, tokens, req, served, environ, history>>

\* mutant: a number beyond the list selects the last title
select_and_edit_title_loop_clamp(r) ==
    LET selection == py_int(r.line)
    IN  IF r.eof THEN Exit([cli EXCEPT !.eof_hit = TRUE], 1, "traceback")
        ELSE IF ~selection.ok THEN [cli EXCEPT !.reprompts = @ + 1]
        ELSE IF selection.val = 0 THEN [cli EXCEPT !.pc = "custom"]
        ELSE IF 1 <= selection.val /\ cli.titles # <<>>
             THEN [cli EXCEPT !.pc = "edit_title",
                              !.selected_title =
                                  cli.titles[IF selection.val <= Len(cli.titles)
                                             THEN selection.val ELSE Len(cli.titles)]]
        ELSE [cli EXCEPT !.reprompts = @ + 1]

\* one pass of the selection loop; r is what input() returned
select_and_edit_title_loop(r) ==
    LET selection == py_int(r.line)
    IN  IF r.eof THEN Exit([cli EXCEPT !.eof_hit = TRUE], 1, "traceback")
        ELSE IF ~selection.ok THEN [cli EXCEPT !.reprompts = @ + 1]
        ELSE IF selection.val = 0 THEN [cli EXCEPT !.pc = "custom"]
        ELSE IF 1 <= selection.val /\ selection.val <= Len(cli.titles)
             THEN [cli EXCEPT !.pc = "edit_title",
                              !.selected_title = cli.titles[selection.val]]
        ELSE [cli EXCEPT !.reprompts = @ + 1]

select_title_prompt ==
    /\ cli.pc = "select"
    /\ \E r \in Reads(SelectionLines) :
          /\ cli' = select_and_edit_title_loop(r)
          /\ cli'.reprompts <= MaxReprompts
    /\ UNCHANGED <<disk, cwd, tokens, req, served, environ, history>>

custom_title_prompt ==
    /\ cli.pc = "custom"
    /\ \E r \in Reads(TitleLines) :
          cli' = IF r.eof THEN Exit([cli EXCEPT !.eof_hit = TRUE], 1, "traceback")
                 ELSE [cli EXCEPT !.pc = "edit_title", !.selected_title = strip(r.line)]
    /\ UNCHANGED <<disk, cwd, tokens, req, served, environ, history>>

\* mutant: the edit is taken even when it is empty
final_title_of_edit_always(input_title, selected_title) == input_title

\* the edited title wins when it is not empty
final_title_of(input_title, selected_title) ==
    IF input_title # <<>> THEN input_title ELSE selected_title

edit_title_prompt ==
    /\ cli.pc = "edit_title"
    /\ \E r \in Reads(TitleLines) :
          cli' = IF r.eof THEN Exit([cli EXCEPT !.eof_hit = TRUE], 1, "traceback")
                 ELSE [cli EXCEPT !.pc = "step6",
                                  !.final_title =
                                      final_title_of(strip(r.line), cli.selected_title)]
    /\ UNCHANGED <<disk, cwd, tokens, req, served, environ, history>>

\* the editor: it may not start, and otherwise leaves the file as it was or
\* edited, with any exit status; subprocess.run without check ignores the status
EditorOutcomes ==
    {[spawned |-> FALSE, rc |-> 0, edit |-> FALSE]}
    \cup {[spawned |-> TRUE, rc |-> c, edit |-> e] : c \in {0, 1}, e \in BOOLEAN}

\* [disk, calls, raise]
edit_description(dk, cw, chapters, e) ==
    LET written == WriteFile(dk, cw, DESCRIPTION_TXT, chapters)
    IN  [disk |-> IF e.spawned /\ e.edit
                  THEN WriteFile(written, cw, DESCRIPTION_TXT, "edited by user")
                  ELSE written,
         calls |-> <<[tool |-> "editor", input |-> DESCRIPTION_TXT, cwd |-> cw,
                      spawned |-> e.spawned, rc |-> e.rc]>>,
         raise |-> IF e.spawned THEN "none" ELSE "FileNotFoundError",
         code |-> 0,
         ran |-> TRUE]

main_step6 ==
    /\ cli.pc = "step6"
    /\ \E e \in EditorOutcomes :
          AfterStage(edit_description(disk, cwd, cli.chapters, e),
                     "EditDescription", "step7")

\* mutant: the prompt is shown whatever skip_confirmation is
confirm_upload_always_asks(c, skip_confirmation, r) ==
    IF r.eof
    THEN Exit([c EXCEPT !.eof_hit = TRUE, !.stages = Append(@, "Confirm")], 1, "traceback")
    ELSE LET asked == [c EXCEPT !.asked = TRUE, !.answer = r.line,
                                !.stages = Append(@, "Confirm")]
         IN  IF confirm_proceeds(r.line) THEN [asked EXCEPT !.pc = "step8"]
             ELSE Exit(asked, 0, "sys_exit")

\* confirm_upload(final_title, description_file, skip_confirmation)
confirm_upload(c, skip_confirmation, r) ==
    IF skip_confirmation THEN [c EXCEPT !.pc = "step8"]
    ELSE IF r.eof
         THEN Exit([c EXCEPT !.eof_hit = TRUE, !.stages = Append(@, "Confirm")],
                   1, "traceback")
    ELSE LET asked == [c EXCEPT !.asked = TRUE, !.answer = r.line,
                                !.stages = Append(@, "Confirm")]
         IN  IF confirm_proceeds(r.line) THEN [asked EXCEPT !.pc = "step8"]
             ELSE Exit(asked, 0, "sys_exit")

main_step7 ==
    /\ cli.pc = "step7"
    /\ \E r \in Reads(ConfirmLines) : cli' = confirm_upload(cli, cli.yes, r)
    /\ UNCHANGED <<disk, cwd, tokens, req, served, environ, history>>

main_step8 ==
    /\ cli.pc = "step8"
    /\ \E o \in Outcomes(ToolOutputs("yt_upload")) :
          LET r == upload_video(disk, cwd, cli.final_title, cli.output_video, o)
              c == [cli EXCEPT !.calls = @ \o r.calls, !.stages = Append(@, "Upload")]
          IN  /\ cli' = CASE r.raise = "none" -> Exit(c, 0, "return")
                          [] r.raise = "SystemExit" -> Exit(c, r.code, "sys_exit")
                          [] OTHER -> Exit(c, 1, "traceback")
              /\ disk' = r.disk
    /\ UNCHANGED <<cwd, tokens, req, served, environ, history>>

(***************************************************************************)
(* The web driver: the request handlers of web/app.py.  A worker thread    *)
(* handles one request at a time.  The two handlers that change the        *)
(* working directory (process POST, confirm POST) take one step per        *)
(* statement that resolves a relative path, so that requests of several    *)
(* threads interleave there; the other handlers use absolute paths only    *)
(* and are one step.                                                       *)
(***************************************************************************)
Threads == {1, 2}

NoToken == "none"

FormTitles == {TitleA, <<>>}

FormDescriptions == {"edited by user", ""}

UploadForms == {"no file part", "no filename", "bad extension", "video"}

\* request.form.get('openai_api_key', ''): every client submits a key of its
\* own, the client that is given session s1 the key k1 and the other k2
FormKey(session_id) == IF session_id = "s1" THEN "k1" ELSE "k2"

\* the process environment before any upload
Inherited == "inherited"

\* what is remembered of a session's requests: whether the publisher has
\* succeeded for it, and what its latest process POST chose about the bypass
NoHistory == [published |-> FALSE, bypass |-> "none"]

NoReq ==
    [kind |-> "none", method |-> "GET", sid |-> NoToken, pc |-> "idle", skip |-> FALSE,
     original_dir |-> InitialDir, output_video |-> OUTPUT_MP4, raise |-> "none",
     calls |-> <<>>, stages |-> <<>>, present0 |-> {}, cwds |-> {}, envs |-> {},
     wrote |-> {}, missing |-> FALSE, after_publish |-> FALSE,
     path_sid |-> NoToken, body |-> "none", status |-> {},
     resp |-> "none", flash |-> "none"]

Idle(t) == cli.pc = "off" /\ req[t].pc \in {"idle", "done"}

InFlight(t, kind, pc) == cli.pc = "off" /\ req[t].kind = kind /\ req[t].pc = pc

\* a request arrives; limit 0 leaves the arrivals uncounted
Admit(limit) ==
    IF limit = 0 THEN served' = served
    ELSE served < limit /\ served' = served + 1

\* the session cookie a request may carry: a session minted for one of the
\* clients in pool, or none
Cookies(pool) == (tokens \cap pool) \cup {NoToken}

Arrive(kind, method, tok) ==
    [NoReq EXCEPT !.kind = kind, !.method = method, !.sid = tok,
                  !.after_publish = tok \in Sessions /\ history[tok].published]

\* the handler returns a response
Respond(r, resp, flash) == [r EXCEPT !.pc = "done", !.resp = resp, !.flash = flash]

SessionFolder(sid, name) == Abs(sid, name)

\* session.get('session_id') is None: flash and redirect to the index page
NoSession(r) == Respond(r, "redirect:index", "No active upload session")

\* POST /upload
web_upload_video(t, pool, limit) ==
    /\ Idle(t)
    /\ Admit(limit)
    /\ \E form \in UploadForms :
          LET r == Arrive("upload", "POST", NoToken)
          IN  IF form # "video"
              THEN /\ req' = [req EXCEPT ![t] = Respond(r, "redirect:upload", form)]
                   /\ UNCHANGED <<disk, tokens, environ>>
              ELSE \E session_id \in pool \ tokens :
                    LET openai_api_key == FormKey(session_id) IN
                      /\ tokens' = tokens \cup {session_id}
                      /\ disk' = WriteFile(
                                    WriteFile(disk, cwd,
                                              SessionFolder(session_id, "openai_api_key.txt"),
                                              openai_api_key),
                                    cwd, SessionFolder(session_id, "input_video.mp4"), "raw")
                      /\ environ' = openai_api_key
                      /\ req' = [req EXCEPT ![t] =
                                   Respond([r EXCEPT !.sid = session_id,
                                                     !.wrote = {"openai_api_key.txt",
                                                                "input_video.mp4"}],
                                           "redirect:process", "none")]
    /\ UNCHANGED <<cwd, cli, history>>

\* GET or POST /process up to os.chdir(session_folder)
process_video(t, pool, limit) ==
    /\ Idle(t)
    /\ Admit(limit)
    /\ \E tok \in Cookies(pool), method \in {"GET", "POST"}, skip \in BOOLEAN :
          LET r == [Arrive("process", method, tok) EXCEPT !.missing = tok = NoToken]
          IN  IF tok = NoToken
              THEN req' = [req EXCEPT ![t] = NoSession(r)] /\ UNCHANGED <<cwd, history>>
              ELSE IF method = "GET"
              THEN /\ req' = [req EXCEPT ![t] = Respond(r, "page:process", "none")]
                   /\ UNCHANGED <<cwd, history>>
              ELSE /\ req' = [req EXCEPT ![t] =
                                [r EXCEPT !.pc = "step1", !.skip = skip,
                                          !.original_dir = cwd,
                                          !.present0 = Present(disk, tok)]]
                   /\ cwd' = tok
                   /\ history' = [history EXCEPT ![tok].bypass =
                                     IF skip THEN "chosen" ELSE "declined"]
    /\ UNCHANGED <<disk, tokens, cli, environ>>

\* what the handler does with the result r of a stage function: an exception
\* leaves the try block for the except and finally clauses
WebAfterStage(t, r, stage, next) ==
    /\ disk' = r.disk
    /\ req' = [req EXCEPT ![t] =
                 [@ EXCEPT !.calls = @ \o r.calls,
                           !.stages = IF r.ran THEN Append(@, stage) ELSE @,
                           !.cwds = @ \cup {cwd},
                           !.envs = IF r.calls = <<>> THEN @ ELSE @ \cup {environ},
                           !.raise = r.raise,
                           !.pc = IF r.raise = "none" THEN next ELSE "finally"]]
    /\ history' = IF \E i \in 1..Len(r.calls) :
                         r.calls[i].tool = "yt_upload" /\ r.calls[i].spawned /\ r.calls[i].rc = 0
                   THEN [history EXCEPT ![req[t].sid].published = TRUE]
                   ELSE history
    /\ UNCHANGED <<cwd, tokens, cli, served, environ>>

process_video_step1(t) ==
    /\ InFlight(t, "process", "step1")
    /\ LET input_video == SessionFolder(req[t].sid, "input_video.mp4")
       IN  IF req[t].skip
           THEN /\ disk' = WriteFile(disk, cwd, Rel("color_edit_skipped.txt"), "true")
                /\ req' = [req EXCEPT ![t] =
                             [@ EXCEPT !.pc = "step2", !.output_video = input_video,
                                       !.cwds = @ \cup {cwd}]]
                /\ UNCHANGED <<cwd, tokens, cli, served, environ, history>>
           ELSE \E o \in Outcomes(ToolOutputs("color_edit")) :
                   WebAfterStage(t, color_edit_video(disk, cwd, input_video, OUTPUT_MP4, o),
                                 "ColorEdit", "step2")

process_video_step2(t) ==
    /\ InFlight(t, "process", "step2")
    /\ \E o \in Outcomes(ToolOutputs("whisper")) :
          WebAfterStage(t, transcribe_video(disk, cwd, req[t].output_video, OUTPUT_SRT, o),
                        "Transcribe", "step3")

process_video_step3(t) ==
    /\ InFlight(t, "process", "step3")
    /\ \E o \in Outcomes(ToolOutputs("yt_chapter_maker")) :
          WebAfterStage(t, generate_chapters(disk, cwd, OUTPUT_SRT, CHAPTERS_JSON, o),
                        "GenerateChapters", "step4")

\* step 4 and the two files saved for the next request
process_video_step4(t) ==
    /\ InFlight(t, "process", "step4")
    /\ LET x == extract_chapters_and_titles(disk, cwd, CHAPTERS_JSON)
       IN  /\ disk' = IF x.raise # "none" THEN disk
                      ELSE WriteFile(WriteFile(disk, cwd, Rel("chapters.txt"), x.chapters),
                                     cwd, Rel("titles.json"), x.titles)
           /\ req' = [req EXCEPT ![t] =
                        [@ EXCEPT !.cwds = @ \cup {cwd}, !.raise = x.raise,
                                  !.stages = Append(@, "ExtractChaptersAndTitles"),
                                  !.pc = "finally"]]
    /\ UNCHANGED <<cwd, tokens, cli, served, environ, history>>

\* mutant: the finally clause does not change the directory back
process_video_finally_no_chdir(t) ==
    /\ InFlight(t, "process", "finally")
    /\ req' = [req EXCEPT ![t] =
                 CASE @.raise = "none" -> Respond(@, "redirect:select_title", "none")
                   [] @.raise = "SystemExit" -> Respond(@, "SystemExit", "none")
                   [] OTHER -> Respond(@, "redirect:index", "Error during processing")]
    /\ UNCHANGED <<disk, cwd, tokens, cli, served, environ, history>>

\* except Exception / finally: SystemExit is not an Exception, so it passes the
\* except clause and leaves the handler after the finally clause
process_video_finally(t) ==
    /\ InFlight(t, "process", "finally")
    /\ cwd' = req[t].original_dir
    /\ req' = [req EXCEPT ![t] =
                 CASE @.raise = "none" -> Respond(@, "redirect:select_title", "none")
                   [] @.raise = "SystemExit" -> Respond(@, "SystemExit", "none")
                   [] OTHER -> Respond(@, "redirect:index", "Error during processing")]
    /\ UNCHANGED <<disk, tokens, cli, served, environ, history>>

\* GET or POST /select_title
select_title(t, pool, limit) ==
    /\ Idle(t)
    /\ Admit(limit)
    /\ \E tok \in Cookies(pool), method \in {"GET", "POST"}, title \in FormTitles :
          LET r == Arrive("select_title", method, tok)
              chapters_txt == SessionFolder(tok, "chapters.txt")
              titled == WriteFile(disk, cwd, SessionFolder(tok, "final_title.txt"), title)
          IN  IF tok = NoToken
              THEN /\ req' = [req EXCEPT ![t] = NoSession([r EXCEPT !.missing = TRUE])]
                   /\ UNCHANGED disk
              ELSE IF method = "GET"
              THEN /\ req' = [req EXCEPT ![t] =
                                Respond([r EXCEPT !.missing =
                                            ~Exists(disk, cwd, SessionFolder(tok, "titles.json"))],
                                        "page:select_title", "none")]
                   /\ UNCHANGED disk
              ELSE IF ~Exists(disk, cwd, chapters_txt)
              THEN /\ disk' = titled
                   /\ req' = [req EXCEPT ![t] =
                                Respond([r EXCEPT !.missing = TRUE,
                                                  !.wrote = {"final_title.txt"},
                                                  !.raise = "FileNotFoundError"],
                                        "500", "none")]
              ELSE /\ disk' = WriteFile(titled, cwd, SessionFolder(tok, "description.txt"),
                                        Data(disk, cwd, chapters_txt))
                   /\ req' = [req EXCEPT ![t] =
                                Respond([r EXCEPT !.wrote = {"final_title.txt",
                                                             "description.txt"}],
                                        "redirect:edit_description", "none")]
    /\ UNCHANGED <<cwd, tokens, cli, environ, history>>

\* GET or POST /edit_description
web_edit_description(t, pool, limit) ==
    /\ Idle(t)
    /\ Admit(limit)
    /\ \E tok \in Cookies(pool), method \in {"GET", "POST"},
          description \in FormDescriptions :
          LET r == Arrive("edit_description", method, tok)
              description_txt == SessionFolder(tok, "description.txt")
          IN  IF tok = NoToken
              THEN /\ req' = [req EXCEPT ![t] = NoSession([r EXCEPT !.missing = TRUE])]
                   /\ UNCHANGED disk
              ELSE IF method = "GET"
              THEN /\ req' = [req EXCEPT ![t] =
                                Respond([r EXCEPT !.missing =
                                            ~Exists(disk, cwd, description_txt)],
                                        "page:edit_description", "none")]
                   /\ UNCHANGED disk
              ELSE /\ disk' = WriteFile(disk, cwd, description_txt, description)
                   /\ req' = [req EXCEPT ![t] =
                                Respond([r EXCEPT !.wrote = {"description.txt"}],
                                        "redirect:confirm", "none")]
    /\ UNCHANGED <<cwd, tokens, cli, environ, history>>

\* GET or POST /confirm up to os.chdir(session_folder)
web_confirm_upload(t, pool, limit) ==
    /\ Idle(t)
    /\ Admit(limit)
    /\ \E tok \in Cookies(pool), method \in {"GET", "POST"} :
          LET r == Arrive("confirm", method, tok)
          IN  IF tok = NoToken
              THEN /\ req' = [req EXCEPT ![t] = NoSession([r EXCEPT !.missing = TRUE])]
                   /\ UNCHANGED cwd
              ELSE IF method = "GET"
              THEN /\ req' = [req EXCEPT ![t] =
                                Respond([r EXCEPT !.missing =
                                            \E f \in {"final_title.txt", "description.txt"} :
                                                ~Exists(disk, cwd, SessionFolder(tok, f))],
                                        "page:confirm", "none")]
                   /\ UNCHANGED cwd
              ELSE /\ req' = [req EXCEPT ![t] =
                                [r EXCEPT !.pc = "upload", !.original_dir = cwd,
                                          !.missing =
                                              ~Exists(disk, cwd,
                                                      SessionFolder(tok, "final_title.txt"))]]
                   /\ cwd' = tok
    /\ UNCHANGED <<disk, tokens, cli, environ, history>>

\* mutant: the marker file is not consulted
confirm_video_path_no_marker(dk, cw, sid) == SessionFolder(sid, "output.mp4")

\* the video the confirm handler hands to the publisher
confirm_video_path(dk, cw, sid) ==
    IF Exists(dk, cw, SessionFolder(sid, "color_edit_skipped.txt"))
    THEN SessionFolder(sid, "input_video.mp4")
    ELSE SessionFolder(sid, "output.mp4")

\* the try block of the confirm handler
web_confirm_upload_try(t) ==
    /\ InFlight(t, "confirm", "upload")
    /\ LET final_title_txt == SessionFolder(req[t].sid, "final_title.txt")
       IN  IF ~Exists(disk, cwd, final_title_txt)
           THEN /\ req' = [req EXCEPT ![t] =
                             [@ EXCEPT !.raise = "FileNotFoundError", !.pc = "finally"]]
                /\ UNCHANGED <<disk, cwd, tokens, cli, served, environ, history>>
           ELSE \E o \in Outcomes(ToolOutputs("yt_upload")) :
                   WebAfterStage(t, upload_video(disk, cwd, Data(disk, cwd, final_title_txt),
                                                 confirm_video_path(disk, cwd, req[t].sid), o),
                                 "Upload", "finally")

web_confirm_upload_finally(t) ==
    /\ InFlight(t, "confirm", "finally")
    /\ cwd' = req[t].original_dir
    /\ req' = [req EXCEPT ![t] =
                 CASE @.raise = "none" ->
                        Respond(@, "redirect:download", "Video successfully uploaded to YouTube!")
                   [] @.raise = "SystemExit" -> Respond(@, "SystemExit", "none")
                   [] OTHER -> Respond(@, "redirect:download", "Error during upload")]
    /\ UNCHANGED <<disk, tokens, cli, served, environ, history>>

\* GET /download
download_results(t, pool, limit) ==
    /\ Idle(t)
    /\ Admit(limit)
    /\ \E tok \in Cookies(pool) :
          LET r == Arrive("download", "GET", tok)
          IN  req' = [req EXCEPT ![t] =
                        IF tok = NoToken THEN NoSession([r EXCEPT !.missing = TRUE])
                        ELSE Respond(r, "page:download", "none")]
    /\ UNCHANGED <<disk, cwd, tokens, cli, environ, history>>

\* GET /download/<session_id>/<filename>: the session id comes from the URL;
\* the session cookie the request carries (sid) is not looked at
download_file(t, pool, limit) ==
    /\ Idle(t)
    /\ Admit(limit)
    /\ \E tok \in Cookies(pool), session_id \in Sessions,
          filename \in {"output.srt", "description.txt"} :
          LET r == [Arrive("download_file", "GET", tok) EXCEPT !.path_sid = session_id]
              file_path == SessionFolder(session_id, filename)
          IN  req' = [req EXCEPT ![t] =
                        IF Exists(disk, cwd, file_path)
                        THEN Respond([r EXCEPT !.body = Data(disk, cwd, file_path)],
                                     "file", "none")
                        ELSE Respond([r EXCEPT !.missing = TRUE],
                                     "redirect:download", "File not found")]
    /\ UNCHANGED <<disk, cwd, tokens, cli, environ, history>>

\* the keys of the status object and the file each one reports on
StatusKeys ==
    [color_edit       |-> "output.mp4",
     transcription    |-> "output.srt",
     chapters         |-> "chapters_and_suggested_titles.json",
     titles_extracted |-> "titles.json",
     description      |-> "description.txt",
     title_selected   |-> "final_title.txt"]

\* GET /api/status/<session_id>: answers with the keys whose file exists in
\* the folder of the URL's session id; the session cookie is not looked at
get_process_status(t, pool, limit) ==
    /\ Idle(t)
    /\ Admit(limit)
    /\ \E tok \in Cookies(pool), session_id \in Sessions :
          LET r == [Arrive("status", "GET", tok) EXCEPT !.path_sid = session_id]
              status == {k \in DOMAIN StatusKeys :
                            Exists(disk, cwd, SessionFolder(session_id, StatusKeys[k]))}
          IN  req' = [req EXCEPT ![t] = Respond([r EXCEPT !.status = status], "json", "none")]
    /\ UNCHANGED <<disk, cwd, tokens, cli, environ, history>>

WebStep(t, pool, limit) ==
    \/ web_upload_video(t, pool, limit)
    \/ process_video(t, pool, limit)
    \/ process_video_step1(t)
    \/ process_video_step2(t)
    \/ process_video_step3(t)
    \/ process_video_step4(t)
    \/ process_video_finally(t)
    \/ select_title(t, pool, limit)
    \/ web_edit_description(t, pool, limit)
    \/ web_confirm_upload(t, pool, limit)
    \/ web_confirm_upload_try(t)
    \/ web_confirm_upload_finally(t)
    \/ download_results(t, pool, limit)
    \/ download_file(t, pool, limit)
    \/ get_process_status(t, pool, limit)

vars == <<disk, cwd, cli, tokens, req, served, environ, history>>

NoDisk == [d \in DirNames |-> EmptyDir]

\* the command line: the input video lies in the working directory
CliInit ==
    /\ disk = WriteFile(NoDisk, InitialDir, INPUT_VIDEO, "raw")
    /\ cwd = InitialDir
    /\ cli = NoRun
    /\ tokens = {}
    /\ req = [t \in Threads |-> NoReq]
    /\ served = 0
    /\ environ = Inherited
    /\ history = [s \in Sessions |-> NoHistory]

\* the web application: the uploads root is empty, no request has arrived
WebInit ==
    /\ disk = NoDisk
    /\ cwd = InitialDir
    /\ cli = [NoRun EXCEPT !.pc = "off"]
    /\ tokens = {}
    /\ req = [t \in Threads |-> NoReq]
    /\ served = 0
    /\ environ = Inherited
    /\ history = [s \in Sessions |-> NoHistory]

CliNext ==
    \/ StartRun
    \/ check_required_commands
    \/ main_step1
    \/ main_step2
    \/ main_step3
    \/ main_step4
    \/ select_and_edit_title_enter
    \/ select_title_prompt
    \/ custom_title_prompt
    \/ edit_title_prompt
    \/ main_step6
    \/ main_step7
    \/ main_step8

\* requests handled one at a time, one upload session
WebNext == WebStep(1, {"s1"}, 0)

\* the session of the client that thread t serves
ClientOf(t) == IF t = 1 THEN {"s1"} ELSE {"s2"}

\* two clients, each with its own session, served by two threads at once
WebConcNext == \E t \in Threads : WebStep(t, ClientOf(t), MaxConcRequests)

\* two clients, each with its own session, served one request at a time
WebSeqNext == WebStep(1, Sessions, MaxSeqRequests)

CliSpec == CliInit /\ [][CliNext]_vars

WebSpec == WebInit /\ [][WebNext]_vars

WebConcSpec == WebInit /\ [][WebConcNext]_vars

WebSeqSpec == WebInit /\ [][WebSeqNext]_vars

\* either driver, each from its own start
Init == CliInit \/ WebInit

Next == CliNext \/ WebNext

Spec == Init /\ [][Next]_vars

(***************************************************************************)
(* Vocabulary of the properties.                                           *)
(***************************************************************************)
StageOrder ==
    <<"ColorEdit", "Transcribe", "GenerateChapters", "ExtractChaptersAndTitles",
      "SelectTitle", "EditDescription", "Confirm", "Upload">>

NStages == Len(StageOrder)

IsPrefix(s, t) == Len(s) <= Len(t) /\ s = SubSeq(t, 1, Len(s))

\* the files a stage of the command-line run leaves in the working directory
\* (the extracted titles, the selected title, the confirmation and the upload
\* leave none)
StageArtifacts(i) ==
    CASE i = 1 -> {"output.mp4"}
      [] i = 2 -> {"output.srt"}
      [] i = 3 -> {"chapters_and_suggested_titles.json"}
      [] i = 6 -> {"description.txt"}
      [] OTHER -> {}

\* the artifacts of stages 1..k are present and those of stages k+1..n absent
PrefixState(present, k, n) ==
    /\ \A i \in 1..k : StageArtifacts(i) \subseteq present
    /\ \A i \in (k + 1)..n : StageArtifacts(i) \cap present = {}

Invoked(tool) == \E i \in 1..Len(cli.calls) : cli.calls[i].tool = tool

\* a pipeline tool (not the editor) that ran and exited non-zero
Failed(call) == call.tool # "editor" /\ call.spawned /\ call.rc # 0

UploadSucceeded ==
    \E i \in 1..Len(cli.calls) :
        cli.calls[i].tool = "yt_upload" /\ cli.calls[i].spawned /\ cli.calls[i].rc = 0

\* the answer is a single y or Y with nothing but blanks around it
Affirmative(line) ==
    \E i \in 1..Len(line) :
        /\ line[i] \in {"y", "Y"}
        /\ \A j \in (1..Len(line)) \ {i} : line[j] = " "

(***************************************************************************)
(* C1.  A stage of ColorEdit, Transcribe, GenerateChapters that is invoked *)
(* while its output artifact exists makes no external invocation and      *)
(* leaves every file as it was.                                            *)
(***************************************************************************)
StageInvokedWithOutputPresent ==
    \/ cli.pc = "step1" /\ ~cli.skip_color_edit /\ Exists(disk, cwd, OUTPUT_MP4)
    \/ cli.pc = "step2" /\ Exists(disk, cwd, OUTPUT_SRT)
    \/ cli.pc = "step3" /\ Exists(disk, cwd, CHAPTERS_JSON)
    \/ \E t \in Threads :
          /\ req[t].kind = "process"
          /\ \/ req[t].pc = "step1" /\ ~req[t].skip /\ Exists(disk, cwd, OUTPUT_MP4)
             \/ req[t].pc = "step2" /\ Exists(disk, cwd, OUTPUT_SRT)
             \/ req[t].pc = "step3" /\ Exists(disk, cwd, CHAPTERS_JSON)

\* C1: a step taken while a tool stage is invoked with its output present changes
\* no file and adds no invocation, in the command-line run and in a process POST.
C1_StageIdempotent ==
    [][StageInvokedWithOutputPresent
          => /\ disk' = disk
             /\ cli'.calls = cli.calls
             /\ \A t \in Threads : req'[t].calls = req[t].calls]_vars

\* a run passed all three stages without one invocation: every artifact was there
C1_Witness ==
    /\ cli.pc = "step4" /\ cli.stages = <<>>
    /\ ~cli.skip_color_edit
    /\ {"output.mp4", "output.srt", "chapters_and_suggested_titles.json"}
           \subseteq cli.present0
    /\ cli.calls = <<>>

Expected(k, yes) ==
    SubSeq(StageOrder, k + 1, 3)
        \o <<"ExtractChaptersAndTitles", "SelectTitle", "EditDescription">>
        \o (IF yes THEN <<>> ELSE <<"Confirm">>)
        \o <<"Upload">>

\* the stages a process POST started in prefix state k executes
WebExpected(k) == SubSeq(StageOrder, k + 1, 4)

StageOutput(tool) ==
    CASE tool = "color_edit" -> {OUTPUT_MP4}
      [] tool = "whisper" -> {OUTPUT_SRT}
      [] tool = "yt_chapter_maker" -> {CHAPTERS_JSON}
      [] OTHER -> {}

\* C3: a failed tool invocation is the last of the run, the run has exited, and
\* the output of the failing stage is absent.
C3_Original ==
    \A i \in 1..Len(cli.calls) :
        Failed(cli.calls[i])
            => /\ i = Len(cli.calls)
               /\ cli.pc = "exited"
               /\ \A p \in StageOutput(cli.calls[i].tool) : ~Exists(disk, cwd, p)

(***************************************************************************)
(* C4.  The confirmation gate.  As claimed: without the bypass flag, every *)
(* answer other than exactly "y" or "Y" ends the run with status 0 and     *)
(* without an upload.                                                      *)
(***************************************************************************)
\* C4 as claimed: an answer other than exactly y or Y ends the run with status 0
\* and no upload.
C4_Original ==
    (~cli.yes /\ cli.asked /\ cli.answer \notin {<<"y">>, <<"Y">>})
        => cli.pc = "exited" /\ cli.exit_code = 0 /\ ~Invoked("yt_upload")

\* C4 as amended: the answer is compared after surrounding blanks are removed.
\* Every answer that is not a y or Y between blanks ends the run with status 0
\* and no upload; the publisher is invoked only when the gate was bypassed or
\* answered with such a y.
C4_Gate ==
    /\ (~cli.yes /\ cli.asked /\ ~Affirmative(cli.answer))
           => cli.pc = "exited" /\ cli.exit_code = 0 /\ ~Invoked("yt_upload")
    /\ (cli.pc = "exited" /\ cli.asked /\ Affirmative(cli.answer)) => Invoked("yt_upload")
    /\ Invoked("yt_upload") => cli.yes \/ (cli.asked /\ Affirmative(cli.answer))

C4_Witness ==
    /\ ~cli.yes /\ cli.asked /\ cli.answer = <<"y", "e", "s">>
    /\ cli.pc = "exited" /\ cli.exit_code = 0

(***************************************************************************)
(* C5.  The bypass flag.  As claimed: with --yes and every tool            *)
(* succeeding, a run whose standard input is at end of input reaches the   *)
(* upload.  RunClean: every command was found, exited 0 and left its       *)
(* output.                                                                 *)
(***************************************************************************)
RunClean ==
    /\ cli.uvx
    /\ \A i \in 1..Len(cli.calls) : cli.calls[i].spawned /\ cli.calls[i].rc = 0
    /\ Exists(disk, cwd, OUTPUT_SRT)
    /\ Exists(disk, cwd, CHAPTERS_JSON)
    /\ JsonLoad(Data(disk, cwd, CHAPTERS_JSON)).ok

\* C5 as claimed: with --yes, all tools succeeding and no input available, the
\* finished run has invoked the publisher.
C5_Original ==
    (cli.pc = "exited" /\ cli.yes /\ cli.stdin_closed /\ RunClean)
        => Invoked("yt_upload")

\* C5 as amended: --yes removes the confirmation prompt only.  With --yes and
\* every tool succeeding the run invokes the upload without asking, provided
\* the title prompts were answered; with no input available it ends at the
\* first title prompt with status 1 and without an upload.
C5_Bypass ==
    /\ (cli.pc = "exited" /\ cli.yes /\ RunClean /\ ~cli.eof_hit)
           => UploadSucceeded /\ ~cli.asked /\ cli.exit_code = 0
    /\ (cli.pc = "exited" /\ cli.yes /\ RunClean /\ cli.stdin_closed)
           => /\ cli.eof_hit /\ cli.exit_code = 1 /\ ~Invoked("yt_upload")
              /\ cli.stages[Len(cli.stages)] = "SelectTitle"
    /\ cli.yes => ~cli.asked

C5_Witness ==
    /\ cli.pc = "exited" /\ cli.yes /\ RunClean /\ ~cli.eof_hit /\ UploadSucceeded
    /\ cli.calls[1].tool = "color_edit"

(***************************************************************************)
(* C8.  Exit status.  As claimed: status 0 exactly when the upload         *)
(* succeeded or the user cancelled, and the status of a failing external   *)
(* tool otherwise, the editor included.                                    *)
(***************************************************************************)
Cancelled == cli.asked /\ ~Affirmative(cli.answer)

\* C8 as claimed: status 0 iff uploaded or cancelled, and every tool that exited
\* non-zero, the editor included, gives the run its status.
C8_Original ==
    cli.pc = "exited"
        => /\ cli.exit_code = 0 <=> (UploadSucceeded \/ Cancelled)
           /\ \A i \in 1..Len(cli.calls) :
                 (cli.calls[i].spawned /\ cli.calls[i].rc # 0)
                     => cli.exit_code = cli.calls[i].rc % 256

\* C8 as amended: the status is 0 exactly when the upload succeeded or the
\* user cancelled; when one of the four tools run through run_command exits
\* with a non-zero code c the status is c (its low eight bits).  The editor is
\* not run through run_command and its exit status is ignored.
C8_ExitStatus ==
    cli.pc = "exited"
        => /\ cli.exit_code = 0 <=> (UploadSucceeded \/ Cancelled)
           /\ \A i \in 1..Len(cli.calls) :
                 Failed(cli.calls[i]) => cli.exit_code = cli.calls[i].rc % 256

\* a tool was killed by signal 9 and the shell sees 247
C8_Witness ==
    /\ cli.pc = "exited" /\ cli.calls # <<>>
    /\ cli.calls[Len(cli.calls)].tool = "yt_chapter_maker"
    /\ cli.calls[Len(cli.calls)].rc = 0 - 9
    /\ cli.exit_code = 247

(***************************************************************************)
(* C6.  Web driver: when an external tool exits non-zero during a process  *)
(* POST or a confirm POST, the handler answers with a flash notice and a   *)
(* redirect.  (No handler deletes a file, so the artifacts of the stages   *)
(* completed before stay; the formula states the response.)                *)
(***************************************************************************)
ToolFailedIn(r) == \E i \in 1..Len(r.calls) : Failed(r.calls[i])

IsRedirect(resp) ==
    resp \in {"redirect:index", "redirect:upload", "redirect:process",
              "redirect:select_title", "redirect:edit_description",
              "redirect:confirm", "redirect:download"}

\* C6: a finished process or confirm POST in which a tool failed answered with a
\* redirect and a flash notice.
C6_Original ==
    \A t \in Threads :
        (req[t].pc = "done" /\ req[t].kind \in {"process", "confirm"} /\ ToolFailedIn(req[t]))
            => IsRedirect(req[t].resp) /\ req[t].flash # "none"

(***************************************************************************)
(* C7.  Web driver: a request without a session token, or whose required   *)
(* artifact file does not exist, ends in a redirect or a rendered page,    *)
(* never in an exception that leaves the handler, and writes no artifact.  *)
(***************************************************************************)
\* C7: a finished request that lacked its session or a required file did not end
\* in an exception and wrote nothing.
C7_Original ==
    \A t \in Threads :
        (req[t].pc = "done" /\ req[t].missing)
            => req[t].resp \notin {"500", "SystemExit"} /\ req[t].wrote = {}

(***************************************************************************)
(* C9.  Bypassing the color edit.  The color editor is not invoked, the    *)
(* transcriber and the publisher receive the original input video, and in  *)
(* the web driver the bypass writes the marker file, the marker stays, and *)
(* a confirm POST that finds it hands the session's input video to the     *)
(* publisher.                                                              *)
(***************************************************************************)
VideoTools == {"whisper", "yt_upload"}

Marker(sid) == SessionFolder(sid, "color_edit_skipped.txt")

CliBypass ==
    cli.skip_color_edit
        => /\ ~Invoked("color_edit")
           /\ \A i \in 1..Len(cli.calls) :
                 cli.calls[i].tool \in VideoTools => cli.calls[i].input = INPUT_VIDEO

WebBypass ==
    \A t \in Threads :
        LET r == req[t]
            input_video == SessionFolder(r.sid, "input_video.mp4")
        IN  /\ (r.kind = "process" /\ r.skip)
                  => /\ \A i \in 1..Len(r.calls) :
                           /\ r.calls[i].tool # "color_edit"
                           /\ r.calls[i].tool \in VideoTools => r.calls[i].input = input_video
                     /\ r.pc # "step1" => Exists(disk, cwd, Marker(r.sid))
            /\ (r.kind = "confirm" /\ r.sid # NoToken /\ Exists(disk, cwd, Marker(r.sid)))
                  => \A i \in 1..Len(r.calls) : r.calls[i].input = input_video

MarkerStays ==
    \A sid \in Sessions : Exists(disk, cwd, Marker(sid)) => Exists(disk', cwd', Marker(sid))

\* C9: both drivers honour the bypass in every state, and no step removes the
\* marker file.
C9_SkipColorEdit == [](CliBypass /\ WebBypass) /\ [][MarkerStays]_vars

\* a confirm POST, a request of its own, uploaded the input video of a session
\* whose process POST had bypassed the color edit
C9_Witness ==
    /\ req[1].kind = "confirm" /\ req[1].pc = "done" /\ req[1].sid # NoToken
    /\ Exists(disk, cwd, Marker(req[1].sid))
    /\ ~Exists(disk, cwd, SessionFolder(req[1].sid, "output.mp4"))
    /\ Len(req[1].calls) = 1
    /\ req[1].calls[1].tool = "yt_upload" /\ req[1].calls[1].rc = 0
    /\ req[1].calls[1].input = SessionFolder(req[1].sid, "input_video.mp4")

(***************************************************************************)
(* C10.  Session ownership under interleaving: every relative path a       *)
(* process POST or confirm POST for a session uses is resolved inside that *)
(* session's directory.                                                    *)
(***************************************************************************)
\* C10: the working directories a process or confirm POST ran its stages in are
\* all its own session's directory.
C10_Original ==
    \A t \in Threads :
        req[t].kind \in {"process", "confirm"} => req[t].cwds \subseteq {req[t].sid}

(***************************************************************************)
(* C11.  No in-memory state survives between requests.  The only place on  *)
(* disk that holds a session's API key is its openai_api_key.txt, so if    *)
(* what a request does is fixed by the files and the session identifier,   *)
(* the environment its tools run in is the key of that file.               *)
(***************************************************************************)
KeyFile(sid) == SessionFolder(sid, "openai_api_key.txt")

\* C11: every tool a process POST or confirm POST of a session invokes runs with
\* the OPENAI_API_KEY stored in that session's directory.
C11_Original ==
    \A t \in Threads :
        (req[t].kind \in {"process", "confirm"} /\ req[t].sid # NoToken)
            => req[t].envs \subseteq {Data(disk, cwd, KeyFile(req[t].sid))}

(***************************************************************************)
(* C12.  The web driver keeps the stage order across requests: the         *)
(* publisher runs for a session only when its transcript, chapters/titles  *)
(* JSON, final title and description exist, and the selected title is      *)
(* stored only when stages 1-4 have completed for the session (the         *)
(* transcript, the JSON and the two files the process POST saves exist).   *)
(* No handler deletes a file, so a file that existed at the time exists    *)
(* in every later state.                                                   *)
(***************************************************************************)
HasAll(sid, names) == \A f \in names : Exists(disk, cwd, SessionFolder(sid, f))

PublisherAfterArtifacts ==
    \A t \in Threads :
        (req[t].sid # NoToken
            /\ \E i \in 1..Len(req[t].calls) : req[t].calls[i].tool = "yt_upload")
           => HasAll(req[t].sid, {"output.srt", "chapters_and_suggested_titles.json",
                                  "final_title.txt", "description.txt"})

TitleAfterStages ==
    \A sid \in Sessions :
        Exists(disk, cwd, SessionFolder(sid, "final_title.txt"))
           => HasAll(sid, {"output.srt", "chapters_and_suggested_titles.json",
                           "chapters.txt", "titles.json"})

\* C12: in every state the publisher has run only with the four artifacts
\* present, and a stored title implies that stages 1-4 have completed.
C12_Original == PublisherAfterArtifacts /\ TitleAfterStages

(***************************************************************************)
(* C13.  A successful upload ends the pipeline.  In a command-line run the *)
(* publisher's success is the run's last invocation and the run has ended; *)
(* in the web driver a request of a session whose publisher had already    *)
(* succeeded when the request arrived invokes no tool.                     *)
(***************************************************************************)
Succeeded(call) == call.tool = "yt_upload" /\ call.spawned /\ call.rc = 0

CliUploadIsLast ==
    \A i \in 1..Len(cli.calls) :
        Succeeded(cli.calls[i]) => i = Len(cli.calls) /\ cli.pc = "exited"

WebUploadIsLast == \A t \in Threads : req[t].after_publish => req[t].calls = <<>>

\* C13: after the publisher has succeeded once for a run or a session, no
\* further external tool is invoked for it.
C13_Original == CliUploadIsLast /\ WebUploadIsLast

(***************************************************************************)
(* C14.  Title selection on the command line.  Typed(l) is input()         *)
(* returning the line l; Trim is the text between the first and the last   *)
(* character that is not a blank.                                          *)
(***************************************************************************)
Typed(l) == [eof |-> FALSE, line |-> l]

Trim(l) ==
    LET solid == {i \in 1..Len(l) : l[i] # " "}
    IN  IF solid = {} THEN <<>>
        ELSE SubSeq(l, CHOOSE i \in solid : \A j \in solid : i <= j,
                       CHOOSE i \in solid : \A j \in solid : j <= i)

\* at the selection prompt, what each line leads to
SelectionRule ==
    cli.pc = "select"
        => \A l \in SelectionLines :
              LET n == py_int(l)
                  after == select_and_edit_title_loop(Typed(l))
              IN  IF n.ok /\ 1 <= n.val /\ n.val <= Len(cli.titles)
                  THEN after = [cli EXCEPT !.pc = "edit_title",
                                           !.selected_title = cli.titles[n.val]]
                  ELSE IF n.ok /\ n.val = 0
                  THEN after = [cli EXCEPT !.pc = "custom"]
                  ELSE after = [cli EXCEPT !.reprompts = @ + 1]

\* the steps the prompts take
SelectionSteps ==
    /\ (cli.pc = "select" /\ cli'.pc = "select")
          => disk' = disk /\ cli' = [cli EXCEPT !.reprompts = @ + 1]
    /\ (cli.pc = "select" /\ cli'.pc \notin {"select", "exited"})
          => \E l \in SelectionLines :
                /\ py_int(l).ok /\ 0 <= py_int(l).val /\ py_int(l).val <= Len(cli.titles)
                /\ cli' = select_and_edit_title_loop(Typed(l))
    /\ (cli.pc = "select" /\ cli'.pc = "exited") => cli'.eof_hit
    /\ (cli.pc = "custom" /\ cli'.pc = "edit_title")
          => \E l \in TitleLines : cli'.selected_title = Trim(l)

\* C14: a number n in 1..N selects t[n], 0 asks for a custom title which is the
\* next line typed (trimmed), every other line changes nothing but the count of
\* re-prompts the model keeps and prompts again; the loop is left only by a
\* valid line (or by the run ending when input ends).
C14_TitleSelection == []SelectionRule /\ [][SelectionSteps]_vars

\* two lines were rejected and then the second title was chosen
C14_Witness ==
    /\ cli.pc = "edit_title" /\ cli.reprompts = MaxReprompts
    /\ Len(cli.titles) = 2 /\ cli.selected_title = cli.titles[2]

(***************************************************************************)
(* C15.  The title edit.  After a title s has been selected, the final     *)
(* title is the edit text, trimmed, when that is not empty, and s          *)
(* otherwise; once set it is the run's one final title.                    *)
(***************************************************************************)
FinalTitle(l, s) == IF Trim(l) # <<>> THEN Trim(l) ELSE s

\* at the edit prompt, what each line leads to
EditRule ==
    cli.pc = "edit_title"
        => \A l \in TitleLines :
              final_title_of(strip(l), cli.selected_title) = FinalTitle(l, cli.selected_title)

\* the step the edit prompt takes, and the title staying as it is afterwards
EditSteps ==
    /\ (cli.pc = "edit_title" /\ cli'.pc # "exited")
          => \E l \in TitleLines :
                cli' = [cli EXCEPT !.pc = "step6",
                                   !.final_title = FinalTitle(l, cli.selected_title)]
    /\ cli.pc \in {"step6", "step7", "step8"} => cli'.final_title = cli.final_title

\* C15: the final title is the trimmed edit text when that is not empty and the
\* selected title when it is; later steps do not change it.
C15_TitleEdit == []EditRule /\ [][EditSteps]_vars

\* a suggested title was selected and then replaced by the edit
C15_Witness ==
    /\ cli.pc = "step6"
    /\ cli.selected_title = TitleA
    /\ cli.final_title = <<"M">>

(***************************************************************************)
(* C16.  EditDescription does not run again over an existing description:  *)
(* a step of the command-line edit_description, of a select_title request  *)
(* or of a process request leaves an existing description.txt as it is.    *)
(***************************************************************************)
DescriptionKept ==
    \A d \in DirNames :
        disk[d]["description.txt"].exists
            => disk'[d]["description.txt"] = disk[d]["description.txt"]

CliRerunStep == cli.pc = "step6"

WebRerunStep ==
    \E t \in Threads : req'[t] # req[t] /\ req'[t].kind \in {"select_title", "process"}

\* C16: no step of those stages changes a description.txt that exists.
C16_Original == [][(CliRerunStep \/ WebRerunStep) => DescriptionKept]_vars

(***************************************************************************)
(* C17.  A required command is missing.  The run ends at the check with a  *)
(* non-zero status, by sys.exit and not by a traceback, before any stage:  *)
(* no tool was invoked, no stage ran and the files are as they were.       *)
(***************************************************************************)
EndsAtCheck ==
    (cli.pc \notin {"shell", "off", "check"} /\ ~cli.uvx)
        => /\ cli.pc = "exited" /\ cli.exit_code # 0 /\ cli.how = "sys_exit"
           /\ cli.calls = <<>> /\ cli.stages = <<>>
           /\ Present(disk, cwd) = cli.present0

CheckStep == (cli.pc = "check" /\ ~cli.uvx) => disk' = disk

JsonObjects == {"J_empty", "J_chapters", "J_titles", "J_full"}

\* what the claim says the function returns for each document
ExtractTable(j) ==
    [raise |-> "none",
     chapters |-> IF j \in {"J_chapters", "J_full"} THEN "00:00 Intro" ELSE "",
     titles |-> IF j \in {"J_titles", "J_full"} THEN <<TitleA, TitleB>> ELSE <<>>]

\* applied to each document, put where the run keeps the JSON file
ExtractRule ==
    \A j \in JsonObjects :
        extract_chapters_and_titles(WriteFile(disk, cwd, CHAPTERS_JSON, j), cwd,
                                    CHAPTERS_JSON) = ExtractTable(j)

\* what a run holds once step 4 has returned
ExtractInRun ==
    cli.pc \in {"step5", "select", "custom", "edit_title", "step6", "step7", "step8"}
        => LET x == ExtractTable(Data(disk, cwd, CHAPTERS_JSON))
           IN  cli.chapters = x.chapters /\ cli.titles = x.titles

\* C18: for every JSON object the function returns the value of each key, or the
\* empty string / empty sequence when the key is missing, and raises nothing.
C18_ExtractDefaults == ExtractRule /\ ExtractInRun

\* a run read the object {} and went on with no chapters and no titles
C18_Witness ==
    /\ cli.pc = "step5"
    /\ Data(disk, cwd, CHAPTERS_JSON) = "J_empty"
    /\ cli.chapters = "" /\ cli.titles = <<>>

(***************************************************************************)
(* C19.  The marker tells what the latest process POST chose.  When a      *)
(* confirm POST hands a video to the publisher, the marker file exists     *)
(* exactly when the session's most recent process POST bypassed the color  *)
(* edit, and the video is the one that request used.                       *)
(***************************************************************************)
LatestVideo(sid) ==
    IF history[sid].bypass = "chosen"
    THEN SessionFolder(sid, "input_video.mp4")
    ELSE SessionFolder(sid, "output.mp4")

\* C19: at a confirm POST's upload the marker exists iff the latest process POST
\* of the session chose the bypass, and the publisher gets that request's video.
C19_Original ==
    \A t \in Threads :
        LET r == req[t]
        IN  (r.kind = "confirm" /\ r.sid # NoToken /\ history[r.sid].bypass # "none")
               => \A i \in 1..Len(r.calls) :
                     r.calls[i].tool = "yt_upload"
                        => /\ Exists(disk, cwd, Marker(r.sid))
                                 <=> history[r.sid].bypass = "chosen"
                           /\ r.calls[i].input = LatestVideo(r.sid)

(***************************************************************************)
(* C20.  Requests handled one at a time: when a process POST or a confirm  *)
(* POST has finished, however it ended, the working directory is the one   *)
(* the request started in, and between requests it is the directory the    *)
(* process started in.                                                     *)
(***************************************************************************)
\* C20: a finished process or confirm POST has put the working directory back,
\* and whenever no request is in flight it is the initial directory.
C20_CwdRestored ==
    /\ \A t \in Threads :
          (req[t].pc = "done" /\ req[t].kind \in {"process", "confirm"})
              => cwd = req[t].original_dir
    /\ (\A t \in Threads : req[t].pc \in {"idle", "done"}) => cwd = InitialDir

\* a process POST ended by a tool's abort and the directory is back
C20_Witness ==
    /\ req[1].kind = "process" /\ req[1].pc = "done" /\ req[1].resp = "SystemExit"
    /\ req[1].cwds = {req[1].sid}
    /\ cwd = InitialDir

(***************************************************************************)
(* C21.  Read isolation between sessions: the response to a request says   *)
(* nothing about the artifacts of a session other than the one whose token *)
(* the request carries.                                                    *)
(***************************************************************************)
\* the session whose folder a handler reads to build its response: the one
\* named in the URL for the file download and the status endpoint, the one
\* of the session cookie for every other handler
ReadSession(r) ==
    IF r.kind \in {"download_file", "status"} THEN r.path_sid ELSE r.sid

\* the response carries the contents of a file, or says whether files exist
Discloses(r) ==
    \/ r.kind = "download_file"
    \/ r.kind = "status"
    \/ r.resp \in {"page:download", "page:select_title", "page:edit_description",
                   "page:confirm"}

\* C21: a finished request that carries the token of session A, or no token,
\* never answers with the contents or the existence status of an artifact in
\* the folder of a different session B.
C21_Original ==
    \A t \in Threads :
        LET r == req[t]
        IN  (r.pc = "done" /\ Discloses(r) /\ ReadSession(r) \in tokens)
               => ReadSession(r) = r.sid

====
